---- MODULE Spec2Model ----
(***************************************************************************)
(* Model of the guillotine packing engine, backend/packing/guillotine.py:  *)
(* GuillotinePacker.pack_pieces and the helpers it calls.                  *)
(*                                                                         *)
(* One call of pack_pieces is one behaviour.  The input list and the board *)
(* size are chosen in Init; the actions are the steps of the call: one     *)
(* iteration of the expansion loop, the sort, one test of the board loop,  *)
(* one iteration of the piece loop of _pack_single_board (a placement or a *)
(* carry-over), the closing of a board, and the return.                    *)
(*                                                                         *)
(* Lengths are integers.  Input dimensions are in cm and are converted to  *)
(* mm by the expansion, as in the code.  The board and the pieces are      *)
(* scaled down (a 60 x 30 mm board, pieces of a few cm) so that all inputs *)
(* within the bounds can be enumerated.                                    *)
(*                                                                         *)
(* Fields src and copy of a unit, field unit of a placed piece, and the    *)
(* variables attempts and last are history ("ghost") state: the code does  *)
(* not store them, they record which input entry an object came from and   *)
(* what the last iteration did, so that properties can refer to them.      *)
(* rejected_pieces holds references to the input objects; a reference is   *)
(* modelled as the index of the entry in the input list.                   *)
(***************************************************************************)
EXTENDS Integers, Sequences, FiniteSets, TLC

\* ---------------------------------------------------------------- bounds
\* Largest number of entries of the input list.
MaxPieces == 2

\* Largest number of units the input list expands to (sum of quantities).
MaxUnits == 3

\* Board of the well-formed runs, in mm.
BoardLength == 60

BoardWidth == 30

\* Boards the model remembers.  A run that returns closes at most one board
\* per unit, so the list of boards is complete in every run that returns; in
\* a run that does not return, the boards beyond this many are not stored.
MaxBoards == MaxUnits + 1

\* ------------------------------------------------------ program constants
\* "length_mm = piece.length * 10"
MmPerCm == 10

\* "r.width > 10 and r.height > 10"
MinRect == 10

\* ----------------------------------------------------------- input space
\* Piece dimensions in cm.
Lengths == {2, 3, 6}

Widths == {1, 6}

\* Dimensions and quantities the schema accepts although they are invalid.
AnyLengths == {-2, 0, 2, 6}

AnyWidths == {0, 1}

AnyQuantities == {-1, 0, 1}

AnyBoards == {<<BoardLength, BoardWidth>>, <<0, BoardWidth>>, <<BoardLength, -10>>}

\* schemas.Piece
PieceRecords(ls, ws, qs) ==
    [name : {"p"}, length : ls, width : ws, quantity : qs,
     length_constraint : BOOLEAN, width_constraint : BOOLEAN]

WellFormedPieces == PieceRecords(Lengths, Widths, 1..MaxUnits)

AnyPieces == PieceRecords(AnyLengths, AnyWidths, AnyQuantities)

RECURSIVE TotalQuantity(_)
TotalQuantity(ps) ==
    IF ps = <<>> THEN 0
    ELSE (IF Head(ps).quantity > 0 THEN Head(ps).quantity ELSE 0) + TotalQuantity(Tail(ps))

InputLists(S) ==
    {ps \in UNION {[1..n -> S] : n \in 0..MaxPieces} : TotalQuantity(ps) <= MaxUnits}

\* ----------------------------------------------------------------- state
VARIABLES
    board_length,      \* self.board_length
    board_width,       \* self.board_width
    pieces,            \* the argument of pack_pieces
    pc,                \* position in pack_pieces
    pi,                \* index of the next entry of "for piece in pieces"
    expanded_pieces,   \* work list
    rejected_pieces,   \* references (indices) to rejected input entries
    boards,            \* closed boards
    board_number,      \* number of the next board
    free_rectangles,   \* _pack_single_board: free list of the open board
    placed_pieces,     \* _pack_single_board: pieces placed on the open board
    remaining_pieces,  \* _pack_single_board: carry-over list
    k,                 \* _pack_single_board: index of the next unit
    attempts,          \* history: units attempted on the open board, in order
    last               \* history: what the last iteration of the piece loop did

vars == <<board_length, board_width, pieces, pc, pi, expanded_pieces, rejected_pieces,
          boards, board_number, free_rectangles, placed_pieces, remaining_pieces, k,
          attempts, last>>

\* ------------------------------------------------------------- operators
\* class Rectangle
Rectangle(x, y, width, height) == [x |-> x, y |-> y, width |-> width, height |-> height]

\* "Check if piece fits on board (with or without rotation)"
CanFit(piece, bl, bw) ==
    LET length_mm == piece.length * MmPerCm
        width_mm == piece.width * MmPerCm
    IN  IF length_mm <= bl /\ width_mm <= bw THEN TRUE
        ELSE IF width_mm <= bl /\ length_mm <= bw
             THEN ~piece.length_constraint /\ ~piece.width_constraint
             ELSE FALSE

\* The dict appended to expanded_pieces.
ExpandedUnit(piece, src, copy) ==
    [name |-> piece.name,
     length |-> piece.length * MmPerCm,
     width |-> piece.width * MmPerCm,
     length_constraint |-> piece.length_constraint,
     width_constraint |-> piece.width_constraint,
     area |-> (piece.length * MmPerCm) * (piece.width * MmPerCm),
     src |-> src, copy |-> copy]

\* The inner loop "for i in range(piece.quantity)" for an accepted entry.
ExpandedCopies(piece, src) ==
    [c \in 1..(IF piece.quantity > 0 THEN piece.quantity ELSE 0) |->
        ExpandedUnit(piece, src, c)]

\* The inner loop for a rejected entry: one append per iteration.
RejectedCopies(piece, src) ==
    [c \in 1..(IF piece.quantity > 0 THEN piece.quantity ELSE 0) |-> src]

\* The sort key: (not constrained, -area), compared as a tuple.
SortKey(p) ==
    <<IF p.length_constraint \/ p.width_constraint THEN 0 ELSE 1, 0 - p.area>>

KeyLess(a, b) ==
    \/ SortKey(a)[1] < SortKey(b)[1]
    \/ SortKey(a)[1] = SortKey(b)[1] /\ SortKey(a)[2] < SortKey(b)[2]

\* list.sort is stable: an element goes after the elements that do not
\* compare greater.
RECURSIVE InsertSorted(_, _)
InsertSorted(s, p) ==
    IF s = <<>> THEN <<p>>
    ELSE IF KeyLess(p, Head(s)) THEN <<p>> \o s
         ELSE <<Head(s)>> \o InsertSorted(Tail(s), p)

RECURSIVE SortPieces(_)
SortPieces(s) ==
    IF s = <<>> THEN <<>>
    ELSE InsertSorted(SortPieces(SubSeq(s, 1, Len(s) - 1)), s[Len(s)])

\* _place_and_split with the right slice starting at the corner of the
\* rectangle instead of behind the piece.
PlaceAndSplit_RightAtCorner(piece, rect, placed_width, placed_height, rotated) ==
    [ok |-> TRUE,
     placed |-> [name |-> piece.name, length |-> placed_width, width |-> placed_height,
                 x |-> rect.x, y |-> rect.y, rotated |-> rotated,
                 unit |-> <<piece.src, piece.copy>>],
     new_rects |->
        (IF rect.width > placed_width
         THEN <<Rectangle(rect.x, rect.y, rect.width - placed_width, rect.height)>>
         ELSE <<>>)
        \o
        (IF rect.height > placed_height
         THEN <<Rectangle(rect.x, rect.y + placed_height,
                          placed_width, rect.height - placed_height)>>
         ELSE <<>>)]

\* _place_and_split with the right slice as wide as the whole rectangle.
PlaceAndSplit_RightFullWidth(piece, rect, placed_width, placed_height, rotated) ==
    [ok |-> TRUE,
     placed |-> [name |-> piece.name, length |-> placed_width, width |-> placed_height,
                 x |-> rect.x, y |-> rect.y, rotated |-> rotated,
                 unit |-> <<piece.src, piece.copy>>],
     new_rects |->
        (IF rect.width > placed_width
         THEN <<Rectangle(rect.x + placed_width, rect.y, rect.width, rect.height)>>
         ELSE <<>>)
        \o
        (IF rect.height > placed_height
         THEN <<Rectangle(rect.x, rect.y + placed_height,
                          placed_width, rect.height - placed_height)>>
         ELSE <<>>)]

\* _place_and_split with the top slice as wide as the whole rectangle
\* (rect.width for placed_width), so that it reaches over the right slice.
PlaceAndSplit_TopFullWidth(piece, rect, placed_width, placed_height, rotated) ==
    [ok |-> TRUE,
     placed |-> [name |-> piece.name, length |-> placed_width, width |-> placed_height,
                 x |-> rect.x, y |-> rect.y, rotated |-> rotated,
                 unit |-> <<piece.src, piece.copy>>],
     new_rects |->
        (IF rect.width > placed_width
         THEN <<Rectangle(rect.x + placed_width, rect.y,
                          rect.width - placed_width, rect.height)>>
         ELSE <<>>)
        \o
        (IF rect.height > placed_height
         THEN <<Rectangle(rect.x, rect.y + placed_height,
                          rect.width, rect.height - placed_height)>>
         ELSE <<>>)]

\* _place_and_split
PlaceAndSplit(piece, rect, placed_width, placed_height, rotated) ==
    [ok |-> TRUE,
     placed |-> [name |-> piece.name, length |-> placed_width, width |-> placed_height,
                 x |-> rect.x, y |-> rect.y, rotated |-> rotated,
                 unit |-> <<piece.src, piece.copy>>],
     new_rects |->
        (IF rect.width > placed_width
         THEN <<Rectangle(rect.x + placed_width, rect.y,
                          rect.width - placed_width, rect.height)>>
         ELSE <<>>)
        \o
        (IF rect.height > placed_height
         THEN <<Rectangle(rect.x, rect.y + placed_height,
                          placed_width, rect.height - placed_height)>>
         ELSE <<>>)]

\* "return None"
None == [ok |-> FALSE]

\* _try_place_piece with "or" for "and" in the guard of the rotated branch:
\* a unit with one lock flag is rotated when it is not placed unrotated.
TryPlacePiece_RotateWithOneLock(piece, rect) ==
    LET length == piece.length
        width == piece.width
    IN  IF /\ length <= rect.width /\ width <= rect.height
           /\ ~piece.width_constraint /\ ~piece.length_constraint
        THEN PlaceAndSplit(piece, rect, length, width, FALSE)
        ELSE IF /\ length <= rect.width /\ width <= rect.height
                /\ piece.length_constraint /\ ~piece.width_constraint
        THEN PlaceAndSplit(piece, rect, length, width, FALSE)
        ELSE IF /\ (~piece.length_constraint \/ ~piece.width_constraint)
                /\ width <= rect.width /\ length <= rect.height
        THEN PlaceAndSplit(piece, rect, width, length, TRUE)
        ELSE None

\* _try_place_piece
TryPlacePiece(piece, rect) ==
    LET length == piece.length
        width == piece.width
    IN  IF /\ length <= rect.width /\ width <= rect.height
           /\ ~piece.width_constraint /\ ~piece.length_constraint
        THEN PlaceAndSplit(piece, rect, length, width, FALSE)
        ELSE IF /\ length <= rect.width /\ width <= rect.height
                /\ piece.length_constraint /\ ~piece.width_constraint
        THEN PlaceAndSplit(piece, rect, length, width, FALSE)
        ELSE IF /\ ~piece.length_constraint /\ ~piece.width_constraint
                /\ width <= rect.width /\ length <= rect.height
        THEN PlaceAndSplit(piece, rect, width, length, TRUE)
        ELSE None

\* _merge_rectangles with ">=" for ">": a rectangle of exactly the threshold
\* stays.
MergeRectangles_Inclusive(rectangles) ==
    SelectSeq(rectangles, LAMBDA r : r.width >= MinRect /\ r.height >= MinRect)

\* _merge_rectangles
MergeRectangles(rectangles) ==
    SelectSeq(rectangles, LAMBDA r : r.width > MinRect /\ r.height > MinRect)

\* The scan without its break: the last rectangle with a placement wins.
FirstPlacement_Last(piece, rects) ==
    IF \E i \in 1..Len(rects) : TryPlacePiece(piece, rects[i]).ok
    THEN CHOOSE i \in 1..Len(rects) :
            /\ TryPlacePiece(piece, rects[i]).ok
            /\ \A j \in (i + 1)..Len(rects) : ~TryPlacePiece(piece, rects[j]).ok
    ELSE 0

\* "for i, rect in enumerate(free_rectangles)" up to the break: the index of
\* the first rectangle with a placement, 0 when the loop ends without one.
FirstPlacement(piece, rects) ==
    IF \E i \in 1..Len(rects) : TryPlacePiece(piece, rects[i]).ok
    THEN CHOOSE i \in 1..Len(rects) :
            /\ TryPlacePiece(piece, rects[i]).ok
            /\ \A j \in 1..(i - 1) : ~TryPlacePiece(piece, rects[j]).ok
    ELSE 0

\* free_rectangles.pop(i)
Pop(rects, i) == SubSeq(rects, 1, i - 1) \o SubSeq(rects, i + 1, Len(rects))

\* The carry-over list loses the piece.
CarryOverList_Drop(remaining, piece) == remaining

\* remaining_pieces.insert(0, piece) for append.
CarryOverList_Prepend(remaining, piece) == <<piece>> \o remaining

\* remaining_pieces.append(piece)
CarryOverList(remaining, piece) == Append(remaining, piece)

RECURSIVE UsedArea(_)
UsedArea(ps) ==
    IF ps = <<>> THEN 0 ELSE Head(ps).length * Head(ps).width + UsedArea(Tail(ps))

\* Board(...) as built at the end of _pack_single_board, numbered by the caller.
ClosedBoard(number, bl, bw, placed) ==
    [board_number |-> number, length |-> bl, width |-> bw, pieces |-> placed,
     waste_area |-> bl * bw - UsedArea(placed)]

NoLast == [kind |-> "none"]

\* --------------------------------------------------------------- actions
InitWith(bl, bw, ps) ==
    /\ board_length = bl
    /\ board_width = bw
    /\ pieces = ps
    /\ pc = "expand"
    /\ pi = 1
    /\ expanded_pieces = <<>>
    /\ rejected_pieces = <<>>
    /\ boards = <<>>
    /\ board_number = 1
    /\ free_rectangles = <<>>
    /\ placed_pieces = <<>>
    /\ remaining_pieces = <<>>
    /\ k = 1
    /\ attempts = <<>>
    /\ last = NoLast

\* Well-formed input: positive dimensions and quantities, positive board.
Init == \E ps \in InputLists(WellFormedPieces) : InitWith(BoardLength, BoardWidth, ps)

\* Anything the types admit.
InitAny ==
    \E b \in AnyBoards : \E ps \in InputLists(AnyPieces) : InitWith(b[1], b[2], ps)

\* One iteration of "for piece in pieces", with its inner loop over range(quantity).
Expand ==
    /\ pc = "expand"
    /\ pi <= Len(pieces)
    /\ IF CanFit(pieces[pi], board_length, board_width)
       THEN /\ expanded_pieces' = expanded_pieces \o ExpandedCopies(pieces[pi], pi)
            /\ UNCHANGED rejected_pieces
       ELSE /\ rejected_pieces' = rejected_pieces \o RejectedCopies(pieces[pi], pi)
            /\ UNCHANGED expanded_pieces
    /\ pi' = pi + 1
    /\ UNCHANGED <<board_length, board_width, pieces, pc, boards, board_number,
                   free_rectangles, placed_pieces, remaining_pieces, k, attempts, last>>

\* expanded_pieces.sort(...), then boards = [], board_number = 1.
Sort ==
    /\ pc = "expand"
    /\ pi > Len(pieces)
    /\ expanded_pieces' = SortPieces(expanded_pieces)
    /\ pc' = "loop"
    /\ UNCHANGED <<board_length, board_width, pieces, pi, rejected_pieces, boards,
                   board_number, free_rectangles, placed_pieces, remaining_pieces, k,
                   attempts, last>>

\* "while expanded_pieces:" is true: enter _pack_single_board.
StartBoard ==
    /\ pc = "loop"
    /\ expanded_pieces # <<>>
    /\ free_rectangles' = <<Rectangle(0, 0, board_length, board_width)>>
    /\ placed_pieces' = <<>>
    /\ remaining_pieces' = <<>>
    /\ k' = 1
    /\ attempts' = <<>>
    /\ last' = NoLast
    /\ pc' = "board"
    /\ UNCHANGED <<board_length, board_width, pieces, pi, expanded_pieces,
                   rejected_pieces, boards, board_number>>

\* One iteration of "for piece in pieces" in which a rectangle takes the piece.
Place ==
    /\ pc = "board"
    /\ k <= Len(expanded_pieces)
    /\ LET piece == expanded_pieces[k]
           i == FirstPlacement(piece, free_rectangles)
       IN  /\ i # 0
           /\ LET placement == TryPlacePiece(piece, free_rectangles[i])
              IN  /\ placed_pieces' = Append(placed_pieces, placement.placed)
                  /\ free_rectangles' =
                        MergeRectangles(Pop(free_rectangles, i) \o placement.new_rects)
                  /\ last' = [kind |-> "placed", piece |-> piece, index |-> i,
                              free_before |-> free_rectangles,
                              placed |-> placement.placed,
                              new_rects |-> placement.new_rects]
           /\ attempts' = Append(attempts, piece)
    /\ k' = k + 1
    /\ UNCHANGED <<board_length, board_width, pieces, pc, pi, expanded_pieces,
                   rejected_pieces, boards, board_number, remaining_pieces>>

\* One iteration in which no rectangle takes the piece.
CarryOver ==
    /\ pc = "board"
    /\ k <= Len(expanded_pieces)
    /\ LET piece == expanded_pieces[k]
       IN  /\ FirstPlacement(piece, free_rectangles) = 0
           /\ remaining_pieces' = CarryOverList(remaining_pieces, piece)
           /\ attempts' = Append(attempts, piece)
           /\ last' = [kind |-> "carried", piece |-> piece,
                       free_before |-> free_rectangles]
    /\ k' = k + 1
    /\ UNCHANGED <<board_length, board_width, pieces, pc, pi, expanded_pieces,
                   rejected_pieces, boards, board_number, free_rectangles, placed_pieces>>

\* The end of _pack_single_board and the rest of the body of the while loop.
CloseBoard ==
    /\ pc = "board"
    /\ k > Len(expanded_pieces)
    /\ boards' =
          IF Len(boards) < MaxBoards
          THEN Append(boards, ClosedBoard(board_number, board_length, board_width,
                                          placed_pieces))
          ELSE boards
    /\ board_number' = IF board_number <= MaxBoards THEN board_number + 1 ELSE board_number
    /\ expanded_pieces' = remaining_pieces
    /\ pc' = "loop"
    /\ UNCHANGED <<board_length, board_width, pieces, pi, rejected_pieces,
                   free_rectangles, placed_pieces, remaining_pieces, k, attempts, last>>

\* "while expanded_pieces:" is false: return CuttingResult(...).
Return ==
    /\ pc = "loop"
    /\ expanded_pieces = <<>>
    /\ pc' = "done"
    /\ UNCHANGED <<board_length, board_width, pieces, pi, expanded_pieces,
                   rejected_pieces, boards, board_number, free_rectangles,
                   placed_pieces, remaining_pieces, k, attempts, last>>

Next == Expand \/ Sort \/ StartBoard \/ Place \/ CarryOver \/ CloseBoard \/ Return

Spec == Init /\ [][Next]_vars

\* The call is sequential code: a step that can be taken is taken.
FairSpec == Init /\ [][Next]_vars /\ WF_vars(Next)

SpecAny == InitAny /\ [][Next]_vars

\* Any list of pieces on the board of the well-formed runs.
InitAnyPieces ==
    \E ps \in InputLists(AnyPieces) : InitWith(BoardLength, BoardWidth, ps)

SpecAnyPieces == InitAnyPieces /\ [][Next]_vars

\* The list of boards is cut off only in runs that do not return: a board
\* closed when MaxBoards boards are stored is empty, like every board after it.
StoredBoardsComplete ==
    (pc = "board" /\ k > Len(expanded_pieces) /\ Len(boards) = MaxBoards) =>
        placed_pieces = <<>>

\* ------------------------------------------------- vocabulary of the claims
Range(s) == {s[i] : i \in DOMAIN s}

\* The units the input expands to: entry src of the list, copy c of its quantity.
InputUnits ==
    {<<src, c>> : src \in DOMAIN pieces, c \in 1..MaxUnits} \cap
    {u \in (DOMAIN pieces) \X (1..MaxUnits) : u[2] <= pieces[u[1]].quantity}

\* Where the closed boards hold a piece: board b, position j of its list.
BoardSites == UNION {{<<b, j>> : j \in DOMAIN boards[b].pieces} : b \in DOMAIN boards}

SitesOf(u) == {s \in BoardSites : boards[s[1]].pieces[s[2]].unit = u}

Returned == pc = "done"

\* ---------------------------------------------------------------------- C1
\* C1: pack_pieces terminates on every well-formed input, whatever the lock
\* flags: the board loop reaches an empty carry-over list and the call
\* returns.  (Checked under FairSpec; refuted by a unit with width_constraint
\* set, which no branch of _try_place_piece places.)
C1_Terminates == <>Returned

\* ---------------------------------------------------------------------- C2
\* C2: when pack_pieces returns, every unit of the expanded input is on
\* exactly one board exactly once, or the entry it came from is in
\* rejected_pieces; it is never placed twice, and every placed piece is a
\* unit of the input.
C2_UnitsAccounted ==
    Returned =>
        /\ \A u \in InputUnits :
              /\ Cardinality(SitesOf(u)) <= 1
              /\ Cardinality(SitesOf(u)) = 1 \/ u[1] \in Range(rejected_pieces)
        /\ \A s \in BoardSites : boards[s[1]].pieces[s[2]].unit \in InputUnits

\* A returned call with units on two boards and a rejected entry.
C2_Witness ==
    /\ Returned
    /\ Len(boards) >= 2
    /\ \A b \in DOMAIN boards : boards[b].pieces # <<>>
    /\ rejected_pieces # <<>>

\* ---------------------------------------------------------------------- C3
\* C3: each entry of the input list appears at most once in rejected_pieces,
\* whatever its quantity, so rejected_pieces is never longer than the input.
\* (Refuted: the append is inside the loop over range(quantity).)
C3_RejectedOnce ==
    /\ \A i, j \in DOMAIN rejected_pieces :
          i # j => rejected_pieces[i] # rejected_pieces[j]
    /\ Len(rejected_pieces) <= Len(pieces)

\* ---------------------------------------------------------------------- C4
\* The placed pieces of every closed board, and of the board being packed.
PieceLists ==
    {boards[b].pieces : b \in DOMAIN boards} \cup
    (IF pc = "board" THEN {placed_pieces} ELSE {})

\* The rectangles [x, x+length) x [y, y+width) of p and q intersect.
Overlap(p, q) ==
    /\ p.x < q.x + q.length /\ q.x < p.x + p.length
    /\ p.y < q.y + q.width /\ q.y < p.y + p.width

\* C4: no two pieces placed on the same board overlap, after every single
\* placement, in either orientation.
C4_NoOverlap ==
    \A ps \in PieceLists : \A i, j \in DOMAIN ps : i # j => ~Overlap(ps[i], ps[j])

\* A board with a rotated and an unrotated piece on it, three pieces in all.
C4_Witness ==
    /\ pc = "board"
    /\ Len(placed_pieces) >= 3
    /\ \E i, j \in DOMAIN placed_pieces :
          placed_pieces[i].rotated /\ ~placed_pieces[j].rotated

\* ---------------------------------------------------------------------- C5
\* C5: every placed piece lies inside its board, with its dimensions as
\* placed.
C5_InsideBoard ==
    \A ps \in PieceLists : \A i \in DOMAIN ps :
        /\ ps[i].x >= 0 /\ ps[i].y >= 0
        /\ ps[i].x + ps[i].length <= board_length
        /\ ps[i].y + ps[i].width <= board_width

\* A piece placed rotated away from the origin, behind two other pieces,
\* that reaches the far edge of the board.
C5_Witness ==
    /\ pc = "board"
    /\ Len(placed_pieces) = 3
    /\ placed_pieces[3].rotated
    /\ placed_pieces[3].x > 0
    /\ placed_pieces[3].y + placed_pieces[3].width = board_width

\* ---------------------------------------------------------------------- C6
Locked(p) == p.length_constraint \/ p.width_constraint

\* C6: a piece placed for an entry with a lock flag is not rotated and has
\* the entry's length along the board length and its width along the board
\* width.
C6_LockedNotRotated ==
    \A ps \in PieceLists : \A i \in DOMAIN ps :
        LET entry == pieces[ps[i].unit[1]]
        IN  Locked(entry) =>
               /\ ~ps[i].rotated
               /\ ps[i].length = entry.length * MmPerCm
               /\ ps[i].width = entry.width * MmPerCm

\* A locked unit placed in a rectangle in which it would also fit rotated.
C6_Witness ==
    /\ last.kind = "placed"
    /\ Locked(last.piece)
    /\ last.piece.width <= last.free_before[last.index].width
    /\ last.piece.length <= last.free_before[last.index].height
    /\ last.piece.length # last.piece.width

\* ---------------------------------------------------------------------- C7
\* C7: with a board length or width <= 0 the call fails; it returns no
\* CuttingResult.  (Refuted: neither __init__ nor pack_pieces tests the board.)
C7_DegenerateBoardFails ==
    (board_length <= 0 \/ board_width <= 0) => ~Returned

\* ---------------------------------------------------------------------- C8
Invalid(entry) == entry.quantity < 1 \/ entry.length <= 0 \/ entry.width <= 0

\* C8: an invalid entry (quantity < 1, or a non-positive dimension) of a call
\* that returns is in rejected_pieces and is not packed.  (The call has no
\* way to refuse: it raises nowhere.)
C8_InvalidReported ==
    Returned =>
        \A src \in DOMAIN pieces :
            Invalid(pieces[src]) =>
                /\ src \in Range(rejected_pieces)
                /\ \A s \in BoardSites : boards[s[1]].pieces[s[2]].unit[1] # src

\* ---------------------------------------------------------------------- C9
\* u may be attempted before v: not an unlocked unit before a locked one,
\* and within a lock class not a smaller unit before a larger one.
InOrder(u, v) ==
    /\ Locked(v) => Locked(u)
    /\ (Locked(u) <=> Locked(v)) => u.area >= v.area

\* Position of the unit in the list (units differ in src or copy).
PositionIn(s, u) == CHOOSE i \in DOMAIN s : s[i] = u

\* C9: on every board, also one filled from a carry-over list, the units are
\* attempted locked before unlocked and, within a lock class, by descending
\* area; the carry-over list keeps the relative order of the work list.
C9_AttemptOrder ==
    /\ \A i, j \in DOMAIN attempts : i < j => InOrder(attempts[i], attempts[j])
    /\ pc = "board" =>
          \A i, j \in DOMAIN remaining_pieces :
              i < j => PositionIn(expanded_pieces, remaining_pieces[i])
                          < PositionIn(expanded_pieces, remaining_pieces[j])

\* A later board, filled from a carry-over list, on which two units of the
\* same lock class and of different area, both of them placeable, have been
\* attempted.
C9_Witness ==
    /\ pc = "board"
    /\ board_number >= 2
    /\ Len(attempts) >= 2
    /\ Locked(attempts[1]) <=> Locked(attempts[2])
    /\ attempts[1].area > attempts[2].area
    /\ ~attempts[1].width_constraint /\ ~attempts[2].width_constraint

\* --------------------------------------------------------------------- C10
FitsUnrotated(u, r) == u.length <= r.width /\ u.width <= r.height

FitsRotated(u, r) == u.width <= r.width /\ u.length <= r.height

\* The unit fits the rectangle in an orientation its locks allow.
Accepts(u, r) == FitsUnrotated(u, r) \/ (~Locked(u) /\ FitsRotated(u, r))

\* s is t with some elements left out.
RECURSIVE IsSubSeq(_, _)
IsSubSeq(s, t) ==
    IF s = <<>> THEN TRUE
    ELSE IF t = <<>> THEN FALSE
    ELSE IF Head(s) = Head(t) THEN IsSubSeq(Tail(s), Tail(t))
    ELSE IsSubSeq(s, Tail(t))

\* C10: a unit that is placed goes to the corner of the first rectangle of
\* the free list that accepts it; it is rotated only if it has no lock and
\* does not fit that rectangle unrotated; the rectangle leaves the list and
\* at most two new ones are added at its end.
C10_FirstFit ==
    last.kind = "placed" =>
        LET u == last.piece
            before == last.free_before
            i == last.index
            kept == Len(before) - 1
        IN  /\ Accepts(u, before[i])
            /\ \A j \in 1..(i - 1) : ~Accepts(u, before[j])
            /\ last.placed.x = before[i].x /\ last.placed.y = before[i].y
            /\ last.placed = placed_pieces[Len(placed_pieces)]
            /\ last.placed.rotated <=> (~Locked(u) /\ ~FitsUnrotated(u, before[i]))
            /\ Len(last.new_rects) <= 2
            /\ Len(free_rectangles) >= kept
            /\ SubSeq(free_rectangles, 1, kept) =
                  SubSeq(before, 1, i - 1) \o SubSeq(before, i + 1, Len(before))
            /\ IsSubSeq(SubSeq(free_rectangles, kept + 1, Len(free_rectangles)),
                        last.new_rects)

\* A unit placed rotated in the second rectangle of a list of three, the
\* first one having refused it.
C10_Witness ==
    /\ last.kind = "placed"
    /\ last.index = 2
    /\ last.placed.rotated
    /\ Len(last.free_before) = 3
    /\ ~Accepts(last.piece, last.free_before[1])

\* --------------------------------------------------------------------- C11
\* The list the filter of the last placement was applied to: the free list
\* without the rectangle used, followed by the slices of the split.
PruneCandidates == Pop(last.free_before, last.index) \o last.new_rects

\* C11 as claimed: after a placement no rectangle narrower or lower than 10
\* is left in the free list, and every rectangle of the list the filter was
\* applied to whose width and height are both at least 10, exactly 10
\* included, is still in it.  (Refuted: the filter keeps "> 10".)
C11_PrunedBelowThreshold ==
    last.kind = "placed" =>
        /\ \A r \in Range(free_rectangles) : r.width >= MinRect /\ r.height >= MinRect
        /\ \A r \in Range(PruneCandidates) :
              (r.width >= MinRect /\ r.height >= MinRect) => r \in Range(free_rectangles)

\* C11 as amended: the filter discards a rectangle exactly when its width or
\* its height is at most 10.  After a placement the free list is the list the
\* filter was applied to, in order, without the rectangles whose width or
\* height is 10 or less; every rectangle wider and higher than 10 is kept.
C11_PrunedUpToThreshold ==
    last.kind = "placed" =>
        /\ IsSubSeq(free_rectangles, PruneCandidates)
        /\ \A r \in Range(free_rectangles) : r.width > MinRect /\ r.height > MinRect
        /\ Len(free_rectangles) =
              Cardinality({i \in DOMAIN PruneCandidates :
                              /\ PruneCandidates[i].width > MinRect
                              /\ PruneCandidates[i].height > MinRect})

\* A placement whose split leaves a slice of exactly 10, which is discarded,
\* and another slice, which is kept.
C11_Witness ==
    /\ last.kind = "placed"
    /\ \E r \in Range(last.new_rects) :
          /\ r.width = MinRect \/ r.height = MinRect
          /\ r \notin Range(free_rectangles)
    /\ \E r \in Range(last.new_rects) : r \in Range(free_rectangles)

\* --------------------------------------------------------------------- C12
\* The piece loop of the open board has ended: the board is about to be closed.
BoardClosing == pc = "board" /\ k > Len(expanded_pieces)

\* C12: when a board is closed, no unit of the carry-over list fits, in an
\* orientation its locks allow, in a rectangle still in the free list of that
\* board.  (Refuted by a unit with width_constraint set: it fits the empty
\* board unrotated, yet _try_place_piece never places it, see C1.)
C12_ClosedBoardFull ==
    BoardClosing =>
        \A i \in DOMAIN remaining_pieces : \A r \in Range(free_rectangles) :
            ~Accepts(remaining_pieces[i], r)

\* The same for the units _try_place_piece can place at all, those without
\* width_constraint: the part of C12 that does not rest on the defect of C1.
ClosedBoardFullForPlaceable ==
    BoardClosing =>
        \A i \in DOMAIN remaining_pieces : \A r \in Range(free_rectangles) :
            ~remaining_pieces[i].width_constraint => ~Accepts(remaining_pieces[i], r)

\* --------------------------------------------------------------------- C13
\* The free rectangles [x, x+width) x [y, y+height) of r and q intersect.
RectsOverlap(r, q) ==
    /\ r.x < q.x + q.width /\ q.x < r.x + r.width
    /\ r.y < q.y + q.height /\ q.y < r.y + r.height

\* The free rectangle r and the placed piece p intersect.
RectOverlapsPiece(r, p) ==
    /\ r.x < p.x + p.length /\ p.x < r.x + r.width
    /\ r.y < p.y + p.width /\ p.y < r.y + r.height

RECURSIVE FreeArea(_)
FreeArea(rs) ==
    IF rs = <<>> THEN 0 ELSE Head(rs).width * Head(rs).height + FreeArea(Tail(rs))

RECURSIVE PlacedArea(_)
PlacedArea(ps) ==
    IF ps = <<>> THEN 0 ELSE Head(ps).length * Head(ps).width + PlacedArea(Tail(ps))

\* C13: while a board is packed, after every placement with its split and
\* pruning, the free rectangles are pairwise disjoint, lie inside the board
\* and are disjoint from every piece placed on the board, and the area of the
\* placed pieces plus the area of the free rectangles is at most the area of
\* the board.
C13_FreeSetInvariant ==
    pc = "board" =>
        /\ \A i, j \in DOMAIN free_rectangles :
              i # j => ~RectsOverlap(free_rectangles[i], free_rectangles[j])
        /\ \A i \in DOMAIN free_rectangles :
              /\ free_rectangles[i].x >= 0 /\ free_rectangles[i].y >= 0
              /\ free_rectangles[i].x + free_rectangles[i].width <= board_length
              /\ free_rectangles[i].y + free_rectangles[i].height <= board_width
        /\ \A i \in DOMAIN free_rectangles : \A j \in DOMAIN placed_pieces :
              ~RectOverlapsPiece(free_rectangles[i], placed_pieces[j])
        /\ PlacedArea(placed_pieces) + FreeArea(free_rectangles)
              <= board_length * board_width

\* Two pieces placed, two free rectangles left, and area lost to pruning.
C13_Witness ==
    /\ pc = "board"
    /\ Len(placed_pieces) >= 2
    /\ Len(free_rectangles) >= 2
    /\ PlacedArea(placed_pieces) + FreeArea(free_rectangles) < board_length * board_width

====
